---- MODULE Spec2Model ----
(***************************************************************************)
(* Mergington High School activities API (src/app.py).                     *)
(*                                                                         *)
(* The handlers are plain `def` endpoints, which FastAPI runs on a pool of *)
(* worker threads: several requests execute at the same time and may be    *)
(* preempted between any two statements.  A request is modelled as a       *)
(* thread walking through its handler; every access to shared state (the   *)
(* session table, its lock, a participant list) is a step of its own.      *)
(* Statements that touch only the request's own arguments are folded into  *)
(* the step that precedes the next shared access.                          *)
(*                                                                         *)
(* Strings the code takes apart (Authorization headers, tokens) are        *)
(* sequences of one-character strings; strings it only compares (activity  *)
(* names, emails, usernames, passwords) are TLA+ strings.                  *)
(***************************************************************************)
EXTENDS Integers, Sequences, FiniteSets, TLC

VARIABLES
    activities,      \* app.py:27   activity name -> record
    sessions,        \* app.py:86   _sessions: token -> username
    sessions_lock,   \* app.py:87   _sessions_lock: holder thread, or Free
    TEACHERS,        \* app.py:106  credential list loaded at import
    teachers_file,   \* the teachers.json that _load_teachers found
    issued,          \* tokens uuid4 has produced so far
    returned,        \* tokens some login response has delivered to a client
    started,         \* requests received so far
    last_success,    \* history: per (activity, email), the operation of
                     \* the last request on it that was answered 200
    req              \* per worker thread: the request it is serving

vars == <<activities, sessions, sessions_lock, TEACHERS, teachers_file,
          issued, returned, started, last_success, req>>

----------------------------------------------------------------------------
(* Bounds *)

NumThreads == 2      \* worker threads serving requests concurrently
MaxTokens == 2       \* distinct values uuid4 yields within a run
MaxRequests == 3     \* requests received within a run

Threads == 1..NumThreads

----------------------------------------------------------------------------
(* Python values *)

None == <<"None">>   \* no one-character string, so never a piece of text
Free == 0            \* the lock is not held

\* dict.get(key, default); dict.get(key) defaults to None
GetOr(d, k, default) == IF k \in DOMAIN d THEN d[k] ELSE default

Get(d, k) == GetOr(d, k, "None")

\* str.lower, on the letters the headers below are written with
LowerChar(c) ==
    CASE c = "B" -> "b"
      [] c = "E" -> "e"
      [] c = "A" -> "a"
      [] c = "R" -> "r"
      [] OTHER -> c

Lower(s) == [i \in 1..Len(s) |-> LowerChar(s[i])]

\* str.startswith
StartsWith(s, p) == Len(s) >= Len(p) /\ SubSeq(s, 1, Len(p)) = p

\* s.split(" ", 1)[1]: what follows the first space of s (s has one)
AfterFirstSpace(s) ==
    LET i == CHOOSE k \in 1..Len(s) :
                 s[k] = " " /\ \A j \in 1..(k - 1) : s[j] # " "
    IN  SubSeq(s, i + 1, Len(s))

RECURSIVE LStrip(_)
LStrip(s) == IF s # <<>> /\ Head(s) = " " THEN LStrip(Tail(s)) ELSE s

RECURSIVE RStrip(_)
RStrip(s) ==
    IF s # <<>> /\ s[Len(s)] = " " THEN RStrip(SubSeq(s, 1, Len(s) - 1)) ELSE s

\* str.strip
Strip(s) == LStrip(RStrip(s))

\* list.count, x in list, list.remove (the first occurrence)
RECURSIVE Count(_, _)
Count(x, s) ==
    IF s = <<>> THEN 0
    ELSE (IF Head(s) = x THEN 1 ELSE 0) + Count(x, Tail(s))

Contains(s, x) == \E i \in 1..Len(s) : s[i] = x

RemoveFirst(s, x) ==
    LET i == CHOOSE k \in 1..Len(s) :
                 s[k] = x /\ \A j \in 1..(k - 1) : s[j] # x
    IN  SubSeq(s, 1, i - 1) \o SubSeq(s, i + 1, Len(s))

----------------------------------------------------------------------------
(* Data *)

\* app.py:27-82.  Two of the nine seeded activities are modelled; the
\* handlers treat every activity alike and never touch two at once.
SeedActivities ==
    [n \in {"Chess Club", "Programming Class"} |->
        IF n = "Chess Club"
        THEN [description |-> "Learn strategies and compete in chess tournaments",
              schedule |-> "Fridays, 3:30 PM - 5:00 PM",
              max_participants |-> 12,
              participants |-> <<"michael@mergington.edu", "daniel@mergington.edu">>]
        ELSE [description |-> "Learn programming fundamentals and build software projects",
              schedule |-> "Tuesdays and Thursdays, 3:30 PM - 4:30 PM",
              max_participants |-> 20,
              participants |-> <<"emma@mergington.edu", "sophia@mergington.edu">>]]

\* Request inputs: path and query parameters.  Requests name a seeded
\* activity or one that does not exist, and a seeded email or a new one.
MissingActivity == "Knitting Club"
NewEmail == "new@mergington.edu"
Emails == {"michael@mergington.edu", NewEmail}
Usernames == {"teacher1", "teacher2"}
Passwords == {"secret", "wrong"}

\* uuid4().hex values (lowercase hex; one digit stands for the 32)
HexDigits == <<"a", "c", "d", "f">>
Token(i) == <<HexDigits[i]>>
Tokens == {Token(i) : i \in 1..MaxTokens}

\* Token text a client can make up.  uuid4 values are unguessable, so a
\* made-up token is never one that uuid4 produces.
ForgedTokens == {<<"z">>}

\* Authorization headers built around token text t
BearerHeader(t) == <<"B", "e", "a", "r", "e", "r", " ">> \o t
PaddedHeader(t) == <<"b", "E", "A", "R", "E", "R", " ", " ">> \o t \o <<" ">>
BasicHeader(t) == <<"B", "a", "s", "i", "c", " ">> \o t
UnspacedHeader(t) == <<"B", "e", "a", "r", "e", "r">> \o t

\* Headers a client can send knowing the token texts in `known`
Headers(known) ==
    {None, <<>>}
        \cup {BearerHeader(t) : t \in known}
        \cup {PaddedHeader(t) : t \in known}
        \cup {BasicHeader(t) : t \in known}
        \cup {UnspacedHeader(t) : t \in known}

\* teachers.json as _load_teachers can find it
TeachersFiles ==
    { [kind |-> "missing"],
      [kind |-> "invalid_json"],
      [kind |-> "object", data |-> [comment |-> "no teachers yet"]],
      [kind |-> "object",
       data |-> [teachers |->
                   << [username |-> "teacher1", password |-> "secret"],
                      [username |-> "teacher2"] >>]] }

\* LoadTeachers falling back to a built-in account when nothing was loaded
LoadTeachers_Default(file) ==
    IF file.kind = "object" /\ "teachers" \in DOMAIN file.data
    THEN file.data["teachers"]
    ELSE << [username |-> "teacher1", password |-> "secret"] >>

\* app.py:90-103
LoadTeachers(file) ==
    IF file.kind = "missing" THEN <<>>              \* p.exists() is false
    ELSE IF file.kind = "invalid_json" THEN <<>>    \* json.load raises
    ELSE GetOr(file.data, "teachers", <<>>)

----------------------------------------------------------------------------
(* Requests *)

\* A thread between requests.  It still shows the operation it served last,
\* the token that request presented or was given, and the status it sent.
Idle(op, token, status) ==
    [op |-> op, pc |-> "idle", activity_name |-> "", email |-> "",
     authorization |-> None, username |-> "", password |-> "",
     token |-> token, valid |-> FALSE, status |-> status]

\* A request handed to a worker thread, its handler not yet started.
Request(op, activity_name, email, authorization, username, password) ==
    [op |-> op, pc |-> "recv", activity_name |-> activity_name,
     email |-> email, authorization |-> authorization,
     username |-> username, password |-> password,
     token |-> None, valid |-> FALSE, status |-> 0]

\* Every request a client can send now.
Requests ==
    LET hs == Headers(returned \cup ForgedTokens) IN
    {Request("login", "", "", None, u, p) : u \in Usernames, p \in Passwords}
        \cup {Request("logout", "", "", h, "", "") : h \in hs}
        \cup {Request("get_activities", "", "", None, "", "")}
        \cup {Request(o, n, e, h, "", "") :
                o \in {"signup", "unregister"}, n \in DOMAIN SeedActivities,
                e \in Emails, h \in hs}
        \cup {Request(o, MissingActivity, NewEmail, h, "", "") :
                o \in {"signup", "unregister"}, h \in hs}

Init ==
    /\ activities = SeedActivities
    /\ sessions = [t \in {} |-> ""]
    /\ sessions_lock = Free
    /\ teachers_file \in TeachersFiles
    /\ TEACHERS = LoadTeachers(teachers_file)
    /\ issued = {}
    /\ returned = {}
    /\ started = 0
    /\ last_success = [k \in (DOMAIN SeedActivities) \X Emails |-> "none"]
    /\ req = [th \in Threads |-> Idle("none", None, 0)]

\* The server hands the next request to an idle worker thread.
Receive(th) ==
    /\ req[th].pc = "idle"
    /\ started < MaxRequests
    /\ \E r \in Requests : req' = [req EXCEPT ![th] = r]
    /\ started' = started + 1
    /\ UNCHANGED <<activities, last_success, sessions, sessions_lock,
                   TEACHERS, teachers_file, issued, returned>>

\* The thread sends its response and is idle again.
Respond(th, status) ==
    req' = [req EXCEPT ![th] = Idle(req[th].op, req[th].token, status)]

----------------------------------------------------------------------------
(* Session manager, app.py:109-129 *)

\* HasBearerScheme without the lower(): the scheme compared as written
HasBearerScheme_CaseSensitive(authorization) ==
    /\ authorization # None
    /\ authorization # <<>>
    /\ StartsWith(authorization, <<"B", "e", "a", "r", "e", "r", " ">>)

\* app.py:111-114: the header is present and has the Bearer scheme
HasBearerScheme(authorization) ==
    /\ authorization # None
    /\ authorization # <<>>
    /\ StartsWith(Lower(authorization), <<"b", "e", "a", "r", "e", "r", " ">>)

\* ExtractToken without the strip()
ExtractToken_NoStrip(authorization) == AfterFirstSpace(authorization)

\* app.py:115, app.py:158
ExtractToken(authorization) == Strip(AfterFirstSpace(authorization))

\* TokenInSessions accepting any token text
TokenInSessions_Always(token, table) == TRUE

\* app.py:117
TokenInSessions(token, table) == token \in DOMAIN table

\* app.py:109-117 as a function of the header and the table
IsValid(authorization, table) ==
    /\ HasBearerScheme(authorization)
    /\ TokenInSessions(ExtractToken(authorization), table)

\* app.py:123
InsertSession(table, token, username) ==
    [t \in DOMAIN table \cup {token} |->
        IF t = token THEN username ELSE table[t]]

\* PopSession that empties the table
PopSession_Clear(table, token) == [t \in {} |-> ""]

\* PopSession that misses the entry
PopSession_Keep(table, token) == table

\* app.py:129
PopSession(table, token) == [t \in DOMAIN table \ {token} |-> table[t]]

\* AcquireLock that does not wait for the lock to be free
AcquireLock_NoWait(th) ==
    /\ req[th].pc = "lock"
    /\ sessions_lock' = th
    /\ req' = [req EXCEPT ![th].pc = "locked"]
    /\ UNCHANGED <<activities, last_success, sessions, TEACHERS,
                   teachers_file, issued, returned, started>>

\* `with _sessions_lock:` entered (app.py:116, 122, 128)
AcquireLock(th) ==
    /\ req[th].pc = "lock"
    /\ sessions_lock = Free
    /\ sessions_lock' = th
    /\ req' = [req EXCEPT ![th].pc = "locked"]
    /\ UNCHANGED <<activities, last_success, sessions, TEACHERS,
                   teachers_file, issued, returned, started>>

\* app.py:117: `token in _sessions`, inside the lock
CheckAdminToken_Lookup(th) ==
    /\ req[th].pc = "locked"
    /\ req[th].op \in {"signup", "unregister"}
    /\ req' = [req EXCEPT ![th].pc = "unlock",
                          ![th].valid = TokenInSessions(req[th].token, sessions)]
    /\ UNCHANGED <<activities, last_success, sessions, sessions_lock,
                   TEACHERS, teachers_file, issued, returned, started>>

\* app.py:123: `_sessions[token] = username`, inside the lock
CreateSession_Insert(th) ==
    /\ req[th].pc = "locked"
    /\ req[th].op = "login"
    /\ sessions' = InsertSession(sessions, req[th].token, req[th].username)
    /\ req' = [req EXCEPT ![th].pc = "unlock"]
    /\ UNCHANGED <<activities, last_success, sessions_lock, TEACHERS,
                   teachers_file, issued, returned, started>>

\* app.py:129: `_sessions.pop(token, None)`, inside the lock
DestroySession_Pop(th) ==
    /\ req[th].pc = "locked"
    /\ req[th].op = "logout"
    /\ sessions' = PopSession(sessions, req[th].token)
    /\ req' = [req EXCEPT ![th].pc = "unlock"]
    /\ UNCHANGED <<activities, last_success, sessions_lock, TEACHERS,
                   teachers_file, issued, returned, started>>

\* app.py:116-117 left: the lock is released and _check_admin_token returns;
\* the handler answers 403 on False (app.py:185-186, 215-216).
CheckAdminToken_Release(th) ==
    /\ req[th].pc = "unlock"
    /\ req[th].op \in {"signup", "unregister"}
    /\ sessions_lock' = Free
    /\ IF req[th].valid
       THEN req' = [req EXCEPT ![th].pc = "check"]
       ELSE Respond(th, 403)
    /\ UNCHANGED <<activities, last_success, sessions, TEACHERS,
                   teachers_file, issued, returned, started>>

\* app.py:122-124 left, then app.py:149: the lock is released and the
\* token goes out in the response.
CreateSession_Release(th) ==
    /\ req[th].pc = "unlock"
    /\ req[th].op = "login"
    /\ sessions_lock' = Free
    /\ returned' = returned \cup {req[th].token}
    /\ Respond(th, 200)
    /\ UNCHANGED <<activities, last_success, sessions, TEACHERS,
                   teachers_file, issued, started>>

\* app.py:128-129 left, then app.py:160
DestroySession_Release(th) ==
    /\ req[th].pc = "unlock"
    /\ req[th].op = "logout"
    /\ sessions_lock' = Free
    /\ Respond(th, 200)
    /\ UNCHANGED <<activities, last_success, sessions, TEACHERS,
                   teachers_file, issued, returned, started>>

----------------------------------------------------------------------------
(* API layer, app.py:138-230 *)

\* CredentialMatches comparing the username alone
CredentialMatches_UsernameOnly(t, username, password) ==
    Get(t, "username") = username

\* CredentialMatches comparing the password only
CredentialMatches_PasswordOnly(t, username, password) ==
    Get(t, "password") = password

\* app.py:147
CredentialMatches(t, username, password) ==
    Get(t, "username") = username /\ Get(t, "password") = password

\* app.py:146-150: some entry of the list matches
LoginAccepted(teachers, username, password) ==
    \E i \in 1..Len(teachers) :
        CredentialMatches(teachers[i], username, password)

\* app.py:121: uuid4 yields a value it has not yielded before.  Token values
\* are opaque and interchangeable, so the values are taken in a fixed order;
\* which login gets which is still decided by the interleaving.
FreshTokens ==
    IF Cardinality(issued) < MaxTokens
    THEN {Token(Cardinality(issued) + 1)}
    ELSE {}

\* app.py:146-150 up to the lock of _create_session (app.py:121)
AdminLogin_Start(th) ==
    /\ req[th].pc = "recv"
    /\ req[th].op = "login"
    /\ IF LoginAccepted(TEACHERS, req[th].username, req[th].password)
       THEN \E t \in FreshTokens :
                /\ issued' = issued \cup {t}
                /\ req' = [req EXCEPT ![th].pc = "lock", ![th].token = t]
       ELSE /\ Respond(th, 401)
            /\ UNCHANGED issued
    /\ UNCHANGED <<activities, last_success, sessions, sessions_lock,
                   TEACHERS, teachers_file, returned, started>>

\* app.py:156-159 up to the lock of _destroy_session
AdminLogout_Start(th) ==
    /\ req[th].pc = "recv"
    /\ req[th].op = "logout"
    /\ IF HasBearerScheme(req[th].authorization)
       THEN req' = [req EXCEPT ![th].pc = "lock",
                               ![th].token = ExtractToken(req[th].authorization)]
       ELSE Respond(th, 400)
    /\ UNCHANGED <<activities, last_success, sessions, sessions_lock,
                   TEACHERS, teachers_file, issued, returned, started>>

\* app.py:168-170
GetActivities(th) ==
    /\ req[th].pc = "recv"
    /\ req[th].op = "get_activities"
    /\ Respond(th, 200)
    /\ UNCHANGED <<activities, last_success, sessions, sessions_lock,
                   TEACHERS, teachers_file, issued, returned, started>>

\* app.py:181, 211
ActivityExists(activity_name) == activity_name \in DOMAIN activities

\* Protected_Start with the header checked before the activity
Protected_Start_AuthFirst(th) ==
    /\ req[th].pc = "recv"
    /\ IF ~HasBearerScheme(req[th].authorization)
       THEN Respond(th, 403)
       ELSE IF ~ActivityExists(req[th].activity_name)
       THEN Respond(th, 404)
       ELSE req' = [req EXCEPT ![th].pc = "lock",
                               ![th].token = ExtractToken(req[th].authorization)]
    /\ UNCHANGED <<activities, last_success, sessions, sessions_lock,
                   TEACHERS, teachers_file, issued, returned, started>>

\* app.py:181-186 and 211-216 up to the lock of _check_admin_token:
\* the existence check, then the header checks of app.py:111-115.
Protected_Start(th) ==
    /\ req[th].pc = "recv"
    /\ IF ~ActivityExists(req[th].activity_name)
       THEN Respond(th, 404)
       ELSE IF ~HasBearerScheme(req[th].authorization)
       THEN Respond(th, 403)
       ELSE req' = [req EXCEPT ![th].pc = "lock",
                               ![th].token = ExtractToken(req[th].authorization)]
    /\ UNCHANGED <<activities, last_success, sessions, sessions_lock,
                   TEACHERS, teachers_file, issued, returned, started>>

SignupForActivity_Start(th) == req[th].op = "signup" /\ Protected_Start(th)

UnregisterFromActivity_Start(th) ==
    req[th].op = "unregister" /\ Protected_Start(th)

Participants(activity_name) == activities[activity_name].participants

\* app.py:192
AlreadySignedUp(participants, email) == Contains(participants, email)

\* app.py:199
AppendParticipant(participants, email) == Append(participants, email)

\* app.py:229
RemoveParticipant(participants, email) == RemoveFirst(participants, email)

\* SignupForActivity_Check that also turns a signup away when the activity
\* already has max_participants participants
SignupForActivity_Check_Capacity(th) ==
    /\ req[th].pc = "check"
    /\ req[th].op = "signup"
    /\ IF \/ AlreadySignedUp(Participants(req[th].activity_name),
                             req[th].email)
          \/ Len(Participants(req[th].activity_name)) >=
                 activities[req[th].activity_name].max_participants
       THEN Respond(th, 400)
       ELSE req' = [req EXCEPT ![th].pc = "mutate"]
    /\ UNCHANGED <<activities, last_success, sessions, sessions_lock,
                   TEACHERS, teachers_file, issued, returned, started>>

\* app.py:189-196
SignupForActivity_Check(th) ==
    /\ req[th].pc = "check"
    /\ req[th].op = "signup"
    /\ IF AlreadySignedUp(Participants(req[th].activity_name), req[th].email)
       THEN Respond(th, 400)
       ELSE req' = [req EXCEPT ![th].pc = "mutate"]
    /\ UNCHANGED <<activities, last_success, sessions, sessions_lock,
                   TEACHERS, teachers_file, issued, returned, started>>

\* SignupForActivity_Append with the activities sharing one list object
SignupForActivity_Append_Shared(th) ==
    /\ req[th].pc = "mutate"
    /\ req[th].op = "signup"
    /\ activities' =
         [a \in DOMAIN activities |->
             [activities[a] EXCEPT !.participants =
                 AppendParticipant(@, req[th].email)]]
    /\ last_success' =
         [last_success EXCEPT ![<<req[th].activity_name, req[th].email>>] =
             "signup"]
    /\ Respond(th, 200)
    /\ UNCHANGED <<sessions, sessions_lock, TEACHERS, teachers_file, issued,
                   returned, started>>

\* app.py:199-200
SignupForActivity_Append(th) ==
    /\ req[th].pc = "mutate"
    /\ req[th].op = "signup"
    /\ activities' =
         [activities EXCEPT ![req[th].activity_name].participants =
             AppendParticipant(@, req[th].email)]
    /\ last_success' =
         [last_success EXCEPT ![<<req[th].activity_name, req[th].email>>] =
             "signup"]
    /\ Respond(th, 200)
    /\ UNCHANGED <<sessions, sessions_lock, TEACHERS, teachers_file, issued,
                   returned, started>>

\* app.py:219-226
UnregisterFromActivity_Check(th) ==
    /\ req[th].pc = "check"
    /\ req[th].op = "unregister"
    /\ IF ~AlreadySignedUp(Participants(req[th].activity_name), req[th].email)
       THEN Respond(th, 400)
       ELSE req' = [req EXCEPT ![th].pc = "mutate"]
    /\ UNCHANGED <<activities, last_success, sessions, sessions_lock,
                   TEACHERS, teachers_file, issued, returned, started>>

\* app.py:229-230.  list.remove raises ValueError when the email is no
\* longer in the list; nothing catches it and the server answers 500.
UnregisterFromActivity_Remove(th) ==
    /\ req[th].pc = "mutate"
    /\ req[th].op = "unregister"
    /\ IF Contains(Participants(req[th].activity_name), req[th].email)
       THEN /\ activities' =
                 [activities EXCEPT ![req[th].activity_name].participants =
                     RemoveParticipant(@, req[th].email)]
            /\ last_success' =
                 [last_success EXCEPT
                     ![<<req[th].activity_name, req[th].email>>] =
                         "unregister"]
            /\ Respond(th, 200)
       ELSE /\ Respond(th, 500)
            /\ UNCHANGED <<activities, last_success>>
    /\ UNCHANGED <<sessions, sessions_lock, TEACHERS, teachers_file, issued,
                   returned, started>>

----------------------------------------------------------------------------

Next ==
    \E th \in Threads :
        \/ Receive(th)
        \/ AdminLogin_Start(th)
        \/ AdminLogout_Start(th)
        \/ GetActivities(th)
        \/ SignupForActivity_Start(th)
        \/ UnregisterFromActivity_Start(th)
        \/ AcquireLock(th)
        \/ CheckAdminToken_Lookup(th)
        \/ CheckAdminToken_Release(th)
        \/ CreateSession_Insert(th)
        \/ CreateSession_Release(th)
        \/ DestroySession_Pop(th)
        \/ DestroySession_Release(th)
        \/ SignupForActivity_Check(th)
        \/ SignupForActivity_Append(th)
        \/ UnregisterFromActivity_Check(th)
        \/ UnregisterFromActivity_Remove(th)

Spec == Init /\ [][Next]_vars

\* The steps a thread takes while it holds the session lock.  Every worker
\* thread is an operating-system thread: one that can go on is scheduled
\* again, so a holder is not suspended forever inside the lock.
InsideLock(th) ==
    \/ CheckAdminToken_Lookup(th)
    \/ CheckAdminToken_Release(th)
    \/ CreateSession_Insert(th)
    \/ CreateSession_Release(th)
    \/ DestroySession_Pop(th)
    \/ DestroySession_Release(th)

FairSpec == Spec /\ \A th \in Threads : WF_vars(InsideLock(th))

\* The service after one administrator has logged in: teachers.json held the
\* credential list, POST /admin/login?username=teacher1&password=secret was
\* answered 200 with the first token, and nothing else has happened.
\* `started` counts the requests received from here on.
LoggedInInit ==
    /\ activities = SeedActivities
    /\ sessions = [t \in {Token(1)} |-> "teacher1"]
    /\ sessions_lock = Free
    /\ teachers_file \in
         {f \in TeachersFiles :
             LoginAccepted(LoadTeachers(f), "teacher1", "secret")}
    /\ TEACHERS = LoadTeachers(teachers_file)
    /\ issued = {Token(1)}
    /\ returned = {Token(1)}
    /\ started = 0
    /\ last_success = [k \in (DOMAIN SeedActivities) \X Emails |-> "none"]
    /\ req = [th \in Threads |->
                IF th = 1 THEN Idle("login", Token(1), 200)
                          ELSE Idle("none", None, 0)]

LoggedInSpec == LoggedInInit /\ [][Next]_vars

\* Students signed up for the Chess Club since the service started.
Classmates ==
    << "ava@mergington.edu", "ben@mergington.edu", "cora@mergington.edu",
       "dev@mergington.edu", "eli@mergington.edu", "fay@mergington.edu",
       "gus@mergington.edu", "hana@mergington.edu", "ivan@mergington.edu",
       "jade@mergington.edu" >>

\* The roster once the logged-in administrator has signed up classmates for
\* the Chess Club, one request after the other, until the list has
\* max_participants entries.
FullChessClub ==
    [SeedActivities EXCEPT !["Chess Club"].participants =
        @ \o SubSeq(Classmates, 1,
                    SeedActivities["Chess Club"].max_participants - Len(@))]

\* The service after that login and those signups.  `started` leaves the
\* requests Spec has left after its first.
FullClubInit ==
    /\ activities = FullChessClub
    /\ sessions = [t \in {Token(1)} |-> "teacher1"]
    /\ sessions_lock = Free
    /\ teachers_file \in
         {f \in TeachersFiles :
             LoginAccepted(LoadTeachers(f), "teacher1", "secret")}
    /\ TEACHERS = LoadTeachers(teachers_file)
    /\ issued = {Token(1)}
    /\ returned = {Token(1)}
    /\ started = 1
    /\ last_success = [k \in (DOMAIN SeedActivities) \X Emails |-> "none"]
    /\ req = [th \in Threads |-> Idle("signup", Token(1), 200)]

FullClubSpec == FullClubInit /\ [][Next]_vars

----------------------------------------------------------------------------
(* Properties *)

\* Thread th takes the step of operation op that leaves position pc.
Leaves(th, op, pc) ==
    req[th].op = op /\ req[th].pc = pc /\ req'[th] # req[th]

\* sequence s without its entries equal to x
Without(s, x) == SelectSeq(s, LAMBDA y : y # x)

\* C1: a signup(A, E) that found E not among A's participants (app.py:192)
\* succeeds and leaves E in A's participants exactly once, as the last
\* entry; a signup that finds E already there answers 400 and leaves the
\* roster as it was.
C1_SignupOnce ==
    [][\A th \in Threads :
        LET a == req[th].activity_name
            e == req[th].email
        IN  /\ Leaves(th, "signup", "mutate") =>
                LET after == activities'[a].participants IN
                /\ req'[th].status = 200
                /\ Count(e, after) = 1
                /\ after[Len(after)] = e
            /\ (Leaves(th, "signup", "check")
                  /\ Count(e, activities[a].participants) > 0) =>
                /\ req'[th].status = 400
                /\ activities' = activities]_vars

\* C2: an unregister(A, E) that found E among A's participants (app.py:222)
\* succeeds, removes one occurrence of E and keeps the others in order,
\* after which E is gone, so that the next unregister(A, E) answers 400;
\* an unregister that finds E absent answers 400 and changes nothing.
C2_UnregisterOnce ==
    [][\A th \in Threads :
        LET a == req[th].activity_name
            e == req[th].email
            before == activities[a].participants
        IN  /\ Leaves(th, "unregister", "mutate") =>
                LET after == activities'[a].participants IN
                /\ req'[th].status = 200
                /\ Len(after) = Len(before) - 1
                /\ Without(after, e) = Without(before, e)
                /\ Count(e, after) = 0
            /\ (Leaves(th, "unregister", "check") /\ Count(e, before) = 0) =>
                /\ req'[th].status = 400
                /\ activities' = activities]_vars

\* C3: in every reachable state each email appears at most once in each
\* activity's participant list.
C3_NoDuplicateParticipants ==
    \A a \in DOMAIN activities :
        \A e \in Emails : Count(e, activities[a].participants) <= 1

\* Headers by how they were written: with the Bearer scheme (in either
\* letter case) and a space, or without.
TokenTexts == Tokens \cup ForgedTokens

Malformed(h) ==
    \/ h \in {None, <<>>}
    \/ \E t \in TokenTexts : h \in {BasicHeader(t), UnspacedHeader(t)}

\* the token text a header with the Bearer scheme was written around
Carried(h) ==
    CHOOSE t \in TokenTexts : h \in {BearerHeader(t), PaddedHeader(t)}

Protected == {"signup", "unregister"}

\* C4: a login whose username and password both equal those of some entry
\* of the credential list goes on to create a session, and the token its
\* response carries is valid as "Bearer <token>" when the response is sent;
\* any other login answers 401, carries no token, and leaves the session
\* table as it was.  No login answers 200 any other way.
C4_LoginIssuesValidToken ==
    [][\A th \in Threads :
        /\ Leaves(th, "login", "recv") =>
             IF \E i \in 1..Len(TEACHERS) :
                    /\ {"username", "password"} \subseteq DOMAIN TEACHERS[i]
                    /\ TEACHERS[i].username = req[th].username
                    /\ TEACHERS[i].password = req[th].password
             THEN /\ req'[th].pc = "lock"
                  /\ req'[th].token \in Tokens
             ELSE /\ req'[th].pc = "idle"
                  /\ req'[th].status = 401
                  /\ req'[th].token = None
                  /\ sessions' = sessions
                  /\ returned' = returned
        /\ Leaves(th, "login", "unlock") =>
             /\ req'[th].pc = "idle"
             /\ req'[th].status = 200
             /\ req'[th].token = req[th].token
             /\ req'[th].token \in returned'
             /\ IsValid(BearerHeader(req'[th].token), sessions')
        /\ (req[th].op = "login" /\ req[th].pc # "idle"
              /\ req'[th].pc = "idle" /\ req'[th].status = 200) =>
             req[th].pc = "unlock"]_vars

\* A login answered 401 beside a login answered 200 whose token is valid.
C4_Witness ==
    \E th1, th2 \in Threads :
        /\ req[th1] = Idle("login", req[th1].token, 200)
        /\ IsValid(BearerHeader(req[th1].token), sessions)
        /\ req[th2] = Idle("login", None, 401)

\* C5: a logout with a well-formed Bearer header answers 200 whether or not
\* its token is in the session table; its removal step takes the token out
\* and nothing else, and changes nothing when the token is not there; the
\* token is out of the table when the response is sent.
C5_LogoutIdempotent ==
    [][\A th \in Threads :
        LET t == req[th].token IN
        /\ Leaves(th, "logout", "locked") =>
             /\ t \notin DOMAIN sessions'
             /\ DOMAIN sessions' = DOMAIN sessions \ {t}
             /\ \A u \in DOMAIN sessions' : sessions'[u] = sessions[u]
             /\ t \notin DOMAIN sessions => sessions' = sessions
        /\ Leaves(th, "logout", "unlock") =>
             /\ req'[th].pc = "idle"
             /\ req'[th].status = 200
             /\ t \notin DOMAIN sessions'
             /\ sessions' = sessions]_vars

\* The same issued token logged out twice, both answered 200.
C5_Witness ==
    \E th1, th2 \in Threads :
        /\ th1 # th2
        /\ req[th1].token \in returned
        /\ req[th1] = Idle("logout", req[th1].token, 200)
        /\ req[th2] = req[th1]
        /\ req[th1].token \notin DOMAIN sessions

\* C6: a signup or unregister for an existing activity answers 403 when its
\* header is absent or malformed, and when the token it carries is not in
\* the session table at the lookup; up to and including the lookup and the
\* 403 it changes neither the roster nor the session table; and the roster
\* changes only in a step of a request whose lookup found its token.
C6_ForbiddenWithoutSession ==
    [][/\ \A th \in Threads : \A op \in Protected :
            /\ (Leaves(th, op, "recv")
                  /\ req[th].activity_name \in DOMAIN activities
                  /\ Malformed(req[th].authorization)) =>
                 req'[th] = Idle(op, None, 403)
            /\ Leaves(th, op, "locked") =>
                 req'[th].valid = (req[th].token \in DOMAIN sessions)
            /\ Leaves(th, op, "unlock") =>
                 IF req[th].valid
                 THEN req'[th].pc = "check"
                 ELSE req'[th] = Idle(op, req[th].token, 403)
            /\ (\E pc \in {"recv", "lock", "locked", "unlock"} :
                    Leaves(th, op, pc)) =>
                 /\ activities' = activities
                 /\ sessions' = sessions
            /\ (req'[th].op = op /\ req'[th].pc \in {"check", "mutate"}) =>
                 req'[th].valid
       /\ activities' # activities =>
            \E th \in Threads : \E op \in Protected :
                Leaves(th, op, "mutate") /\ req[th].valid]_vars

\* A signup or unregister answered 403 for a token that a login had issued
\* and a logout has since removed.
C6_Witness ==
    \E th \in Threads :
        /\ req[th].op \in Protected
        /\ req[th].pc = "idle"
        /\ req[th].status = 403
        /\ req[th].token \in returned \ DOMAIN sessions
        /\ activities = SeedActivities

\* C7: a signup or unregister naming an activity that does not exist answers
\* 404 in its first step, whatever its Authorization header, and changes
\* neither the roster nor the session table.
C7_NotFoundFirst ==
    [][\A th \in Threads : \A op \in Protected :
        (Leaves(th, op, "recv")
           /\ req[th].activity_name \notin DOMAIN SeedActivities) =>
            /\ req'[th] = Idle(op, None, 404)
            /\ activities' = activities
            /\ sessions' = sessions]_vars

\* One request answered 404, and one for the missing activity that carries
\* a token of the session table about to be answered.
C7_Witness ==
    \E th1, th2 \in Threads :
        /\ req[th1].op \in Protected
        /\ req[th1].pc = "idle"
        /\ req[th1].status = 404
        /\ req[th2].op \in Protected
        /\ req[th2].pc = "recv"
        /\ req[th2].activity_name = MissingActivity
        /\ ~Malformed(req[th2].authorization)
        /\ Carried(req[th2].authorization) \in DOMAIN sessions

\* C8: a logout whose header is absent or lacks the Bearer scheme answers
\* 400 and leaves the session table as it was; every other logout goes on
\* to the removal with the token its header carries and answers 200.
C8_LogoutHeader ==
    [][\A th \in Threads :
        /\ Leaves(th, "logout", "recv") =>
             IF Malformed(req[th].authorization)
             THEN /\ req'[th] = Idle("logout", None, 400)
                  /\ sessions' = sessions
             ELSE /\ req'[th].pc = "lock"
                  /\ req'[th].token = Carried(req[th].authorization)
        /\ (req[th].op = "logout" /\ req[th].pc \notin {"recv", "idle"}
              /\ req'[th].pc = "idle") =>
             req'[th].status = 200
        /\ (req[th].op = "logout" /\ req[th].pc \notin {"recv", "idle"}) =>
             req'[th].pc # "recv" /\ req'[th].op = "logout"]_vars

\* A logout answered 400 beside a logout answered 200 for a token that was
\* never in the session table.
C8_Witness ==
    \E th1, th2 \in Threads :
        /\ req[th1] = Idle("logout", None, 400)
        /\ req[th2] = Idle("logout", req[th2].token, 200)
        /\ req[th2].token \in ForgedTokens

Holders == {th \in Threads : req[th].pc \in {"locked", "unlock"}}

\* C9: the session table is read and written only by the thread that holds
\* the lock; at most one thread is inside the lock, and it is the one the
\* lock names; a holder's only steps are its one table access and then the
\* release; and a lock that is held comes to be free again (it passes from
\* a holder to no one, never from one holder to the next).
C9_LockDiscipline ==
    /\ [](/\ Cardinality(Holders) <= 1
          /\ \A th \in Threads : th \in Holders <=> sessions_lock = th)
    /\ [][/\ sessions' # sessions =>
               \E th \in Threads :
                   /\ sessions_lock = th
                   /\ req[th].op \in {"login", "logout"}
                   /\ Leaves(th, req[th].op, "locked")
          /\ \A th \in Threads :
               /\ req'[th].valid # req[th].valid /\ req'[th].valid =>
                    sessions_lock = th /\ req[th].pc = "locked"
               /\ (sessions_lock = th /\ req'[th] # req[th]) =>
                    \/ /\ req[th].pc = "locked"
                       /\ req'[th].pc = "unlock"
                       /\ sessions_lock' = th
                    \/ /\ req[th].pc = "unlock"
                       /\ sessions_lock' = Free
               /\ (sessions_lock = th /\ sessions_lock' # th) =>
                    req'[th] # req[th]]_vars
    /\ (sessions_lock # Free) ~> (sessions_lock = Free)

\* One thread inside the lock while the other waits for it.
C9_Witness ==
    \E th1, th2 \in Threads :
        /\ sessions_lock = th1
        /\ req[th1].pc = "locked"
        /\ req[th2].pc = "lock"

LoadFailed == teachers_file.kind \in {"missing", "invalid_json"}

\* C10: when teachers.json is missing or does not parse, the credential
\* list is empty, every login is answered 401, the session table stays
\* empty, and no signup or unregister succeeds: the roster stays as seeded.
C10_FailClosed ==
    LoadFailed =>
        /\ TEACHERS = <<>>
        /\ DOMAIN sessions = {}
        /\ issued = {}
        /\ activities = SeedActivities
        /\ \A th \in Threads :
             /\ req[th].op = "login" => req[th].pc \in {"recv", "idle"}
             /\ (req[th].op = "login" /\ req[th].pc = "idle") =>
                  req[th].status = 401
             /\ (req[th].op \in Protected /\ req[th].pc = "idle") =>
                  req[th].status \in {403, 404}
             /\ req[th].op \in Protected =>
                  req[th].pc \notin {"check", "mutate"}

\* With the file unreadable: a login answered 401 and a signup or
\* unregister answered 403.
C10_Witness ==
    /\ LoadFailed
    /\ \E th1, th2 \in Threads :
        /\ req[th1] = Idle("login", None, 401)
        /\ req[th2].op \in Protected
        /\ req[th2].pc = "idle"
        /\ req[th2].status = 403

C12_UnregisterOutcomes ==
    \A th \in Threads :
        (req[th].op = "unregister" /\ req[th].pc = "idle") =>
            req[th].status \in {200, 404, 403, 400}

\* Every request received so far has been answered.
Quiescent == \A th \in Threads : req[th].pc = "idle"

\* The state LoggedInSpec starts from, as Spec reaches it.
LoggedIn_Reached ==
    /\ activities = SeedActivities
    /\ sessions = [t \in {Token(1)} |-> "teacher1"]
    /\ sessions_lock = Free
    /\ returned = {Token(1)}
    /\ req[1] = Idle("login", Token(1), 200)
    /\ \A th \in Threads \ {1} : req[th] = Idle("none", None, 0)

\* C13: once every request has been answered, an email is in an activity's
\* list exactly when the last request on that pair answered 200 was a signup,
\* or the email was seeded and no unregister of the pair was answered 200.
C13_NoLostUpdates ==
    Quiescent =>
        \A a \in DOMAIN SeedActivities, e \in Emails :
            Contains(Participants(a), e) <=>
                \/ last_success[<<a, e>>] = "signup"
                \/ /\ last_success[<<a, e>>] = "none"
                   /\ Contains(SeedActivities[a].participants, e)

\* A logout presenting token text t has been answered 200 (and its thread
\* has not taken another request since).
LoggedOut(t) == \E th \in Threads : req[th] = Idle("logout", t, 200)

\* Token t was handed out by a login and is no longer in the session table.
Revoked(t) == t \in returned /\ t \notin DOMAIN sessions

\* C14 as stated: after a logout presenting T has been answered, a signup or
\* unregister presenting T whose session lookup runs is found invalid, and no
\* request presenting T changes a participant list.
C14_NoChangeAfterLogout ==
    [][\A th \in Threads : \A op \in Protected :
          /\ (Leaves(th, op, "locked") /\ LoggedOut(req[th].token)) =>
               ~req'[th].valid
          /\ (Leaves(th, op, "mutate") /\ activities' # activities) =>
               ~LoggedOut(req[th].token)]_vars

\* C14: once a logout presenting T has taken T out of the session table,
\* every signup or unregister presenting T whose session lookup runs
\* afterwards is found invalid, is answered 403 and changes no participant
\* list; a list is changed only by a request whose lookup found its token in
\* the table, and such a request may still run after the logout has returned.
C14_LookupAfterLogout ==
    [][\A th \in Threads : \A op \in Protected :
          /\ (Leaves(th, op, "locked")
                /\ (Revoked(req[th].token) \/ LoggedOut(req[th].token))) =>
               /\ ~req'[th].valid
               /\ req'[th].pc = "unlock"
               /\ activities' = activities
          /\ (Leaves(th, op, "unlock") /\ ~req[th].valid) =>
               /\ req'[th] = Idle(op, req[th].token, 403)
               /\ activities' = activities
          /\ (Leaves(th, op, "mutate") /\ activities' # activities) =>
               req[th].valid]_vars

\* A logout presenting an issued token has been answered, and a signup or
\* unregister that presented the same token has been answered 403.
C14_Witness ==
    \E t \in returned : \E th \in Threads : \E op \in Protected :
        /\ LoggedOut(t)
        /\ req[th] = Idle(op, t, 403)

\* Header texts tried against the validity check: those a request can carry,
\* and others around the same token texts.
HeaderTexts ==
    Headers(TokenTexts)
        \cup {Lower(BearerHeader(t)) : t \in TokenTexts}
        \cup {<<" ">> \o BearerHeader(t) : t \in TokenTexts}
        \cup {BearerHeader(t) \o <<" ">> \o t : t \in TokenTexts}
        \cup {BearerHeader(<<>>), PaddedHeader(<<>>)}

Spaces(n) == [i \in 1..n |-> " "]

\* h is present and starts with the letters of "bearer", each in either
\* case, and one space
BeginsWithBearer(h) ==
    /\ h # None
    /\ Len(h) >= 7
    /\ \A i \in 1..6 :
           h[i] \in {<<"b", "e", "a", "r", "e", "r">>[i],
                     <<"B", "E", "A", "R", "E", "R">>[i]}
    /\ h[7] = " "

\* what follows that space is t with blanks around it
Wraps(h, t) ==
    LET rest == SubSeq(h, 8, Len(h))
        blanks == Len(rest) - Len(t)
    IN  \E l \in 0..blanks :
            rest = Spaces(l) \o t \o Spaces(blanks - l)

\* C15: the validity check is true of a header exactly when the header is
\* present, begins with "bearer" in any letter case and a space, and what
\* follows, trimmed, is a key of the session table; the handler steps that
\* carry it out (header checks, then the lookup under the lock) compute just
\* that and change neither the session table nor the roster.
C15_IsValid ==
    /\ [](\A h \in HeaderTexts :
            IsValid(h, sessions) <=>
                /\ BeginsWithBearer(h)
                /\ \E t \in DOMAIN sessions : Wraps(h, t))
    /\ [][\A th \in Threads : \A op \in Protected :
            /\ (Leaves(th, op, "recv")
                  /\ req[th].activity_name \in DOMAIN activities) =>
                 /\ IF BeginsWithBearer(req[th].authorization)
                    THEN /\ req'[th].pc = "lock"
                         /\ \A t \in TokenTexts :
                                req'[th].token = t <=>
                                    Wraps(req[th].authorization, t)
                    ELSE req'[th] = Idle(op, None, 403)
                 /\ sessions' = sessions
                 /\ activities' = activities
            /\ Leaves(th, op, "locked") =>
                 /\ req'[th].valid = (req[th].token \in DOMAIN sessions)
                 /\ sessions' = sessions
                 /\ activities' = activities]_vars

\* A signup or unregister about to be handled whose header is written
\* "bEARER  <token> " around a token of the session table, which the check
\* accepts.
C15_Witness ==
    \E th \in Threads : \E t \in DOMAIN sessions :
        /\ req[th].op \in Protected
        /\ req[th].pc = "recv"
        /\ req[th].authorization = PaddedHeader(t)
        /\ IsValid(req[th].authorization, sessions)

\* Activity a has as many participants as max_participants, or more.
AtCapacity(a) ==
    Len(activities[a].participants) >= activities[a].max_participants

\* C16: a signup with a valid token for an email that is not in the list
\* goes on to append and is answered 200 also when the activity is at or
\* over max_participants; the list grows by that email.
C16_NoCapacityCheck ==
    [][\A th \in Threads :
          LET a == req[th].activity_name
              e == req[th].email
          IN  /\ (Leaves(th, "signup", "check") /\ AtCapacity(a)
                    /\ ~Contains(Participants(a), e)) =>
                   /\ req'[th].pc = "mutate"
                   /\ req'[th].valid
              /\ (Leaves(th, "signup", "mutate") /\ AtCapacity(a)) =>
                   /\ req'[th] = Idle("signup", req[th].token, 200)
                   /\ activities'[a].participants =
                          Append(Participants(a), e)]_vars

\* A signup was answered 200 and the Chess Club has more participants than
\* max_participants.
C16_Witness ==
    /\ Len(activities["Chess Club"].participants) >
           activities["Chess Club"].max_participants
    /\ Contains(activities["Chess Club"].participants, NewEmail)
    /\ \E th \in Threads : req[th] = Idle("signup", Token(1), 200)

\* what an activity record holds besides its participant list
Details(activity) ==
    [description |-> activity.description,
     schedule |-> activity.schedule,
     max_participants |-> activity.max_participants]

\* C17: no step changes the set of activity names or an activity's
\* description, schedule or max_participants; a signup or unregister answered
\* 200 for activity A changes the participant list of A and of no other
\* activity; no step of a login, a logout or a listing, and no step that
\* receives a request, changes any participant list.
C17_Frame ==
    [][/\ DOMAIN activities' = DOMAIN activities
       /\ \A a \in DOMAIN activities :
              /\ DOMAIN activities'[a] = DOMAIN activities[a]
              /\ Details(activities'[a]) = Details(activities[a])
       /\ \A th \in Threads : \A op \in Protected :
              (Leaves(th, op, "mutate") /\ req'[th].status = 200) =>
                  /\ activities'[req[th].activity_name].participants #
                         Participants(req[th].activity_name)
                  /\ \A b \in DOMAIN activities \ {req[th].activity_name} :
                         activities'[b].participants = Participants(b)
       /\ (\E th \in Threads :
              /\ req'[th] # req[th]
              /\ \/ req[th].pc = "idle"
                 \/ req[th].op \in {"login", "logout", "get_activities"}) =>
              activities' = activities]_vars

\* A signup was answered 200 and a login is under way; one activity's
\* participant list differs from the seeded one and nothing else of the
\* roster does.
C17_Witness ==
    /\ \E th \in Threads : req[th].op = "signup" /\ req[th].status = 200
    /\ \E th \in Threads : req[th].op = "login" /\ req[th].pc # "idle"
    /\ \E a \in DOMAIN activities :
           /\ activities[a].participants # SeedActivities[a].participants
           /\ \A b \in DOMAIN activities \ {a} :
                  activities[b] = SeedActivities[b]
           /\ Details(activities[a]) = Details(SeedActivities[a])

\* The credential list has an entry with this username and this password.
Listed(username, password) ==
    \E i \in 1..Len(TEACHERS) :
        /\ "username" \in DOMAIN TEACHERS[i]
        /\ "password" \in DOMAIN TEACHERS[i]
        /\ TEACHERS[i].username = username
        /\ TEACHERS[i].password = password

\* C18: every token of the session table maps to a username that the
\* credential list holds together with a password; a session is inserted
\* only by a login whose username and password are those of one entry of the
\* list, under that username; a login that failed the check inserts nothing;
\* and the list is the one loaded at startup.
C18_SessionsOfListedTeachers ==
    /\ [](/\ TEACHERS = LoadTeachers(teachers_file)
          /\ \A t \in DOMAIN sessions :
                \E p \in Passwords : Listed(sessions[t], p))
    /\ [][\A th \in Threads :
            /\ (Leaves(th, "login", "recv")
                  /\ ~Listed(req[th].username, req[th].password)) =>
                 /\ req'[th] = Idle("login", None, 401)
                 /\ sessions' = sessions
            /\ (\E t \in DOMAIN sessions' : t \notin DOMAIN sessions) =>
                 \E th2 \in Threads :
                     /\ Leaves(th2, "login", "locked")
                     /\ Listed(req[th2].username, req[th2].password)
                     /\ DOMAIN sessions' = DOMAIN sessions \cup {req[th2].token}
                     /\ sessions'[req[th2].token] = req[th2].username]_vars

\* A session is in the table while a login with a wrong password for its
\* username, and a login for a username listed without a password, have been
\* or are being turned away.
C18_Witness ==
    /\ \E t \in DOMAIN sessions : Listed(sessions[t], "secret")
    /\ \E th \in Threads : req[th] = Idle("login", None, 401)
    /\ \E u \in Usernames : \A p \in Passwords : ~Listed(u, p)

====
